---- MODULE Spec2Model ----
(***************************************************************************)
(* Model of the multi-game picker bot of src/main.py: the per-chat record  *)
(* context.user_data, the handlers registered in main(), the keyboard      *)
(* builder and the ranking-text parser.  Python strings are modelled as    *)
(* sequences of one-character strings, so that splitting, stripping and    *)
(* the ordinal-prefix regular expression are computed character by         *)
(* character as the code computes them.                                    *)
(***************************************************************************)
EXTENDS Integers, Sequences, FiniteSets, TLC

VARIABLES user_data, sent

vars == <<user_data, sent>>

(***************************************************************************)
(* Bounds of the model.                                                    *)
(***************************************************************************)
\* how many games of the catalog the modelled user ever taps
NumTapped == 3
\* the largest number of comma-separated entries in a generated text message
MaxParts == 2

\* the number of games tapped when two chats are served
NumPairTapped == 1

(***************************************************************************)
(* Strings.                                                                *)
(***************************************************************************)
Chess == <<"C", "h", "e", "s", "s">>
TicTacToe == <<"T", "i", "c", "-", "T", "a", "c", "-", "T", "o", "e">>
Hangman == <<"H", "a", "n", "g", "m", "a", "n">>
Game2048 == <<"2", "0", "4", "8">>
Sudoku == <<"S", "u", "d", "o", "k", "u">>

GAMES == <<Chess, TicTacToe, Hangman, Game2048, Sudoku>>

DONE == <<"_", "_", "D", "O", "N", "E", "_", "_">>

CHECKMARK == <<"#", " ">>

Whitespace == {" ", "\t", "\n"}

Digit == {"0", "1", "2", "3", "4", "5", "6", "7", "8", "9"}

Range(s) == {s[i] : i \in DOMAIN s}

Contains(list, x) == \E i \in DOMAIN list : list[i] = x

\* str.strip(): drop leading and trailing whitespace
RECURSIVE LStrip(_)
LStrip(s) ==
    IF s # <<>> /\ Head(s) \in Whitespace THEN LStrip(Tail(s)) ELSE s

RECURSIVE RStrip(_)
RStrip(s) ==
    IF s # <<>> /\ s[Len(s)] \in Whitespace
    THEN RStrip(SubSeq(s, 1, Len(s) - 1))
    ELSE s

Strip(s) == RStrip(LStrip(s))

\* str.split(","): the pieces between the commas, empty pieces included
RECURSIVE Split(_)
Split(s) ==
    IF \E i \in DOMAIN s : s[i] = ","
    THEN LET i == CHOOSE k \in DOMAIN s :
                      s[k] = "," /\ \A j \in 1..(k - 1) : s[j] # ","
         IN <<SubSeq(s, 1, i - 1)>> \o Split(SubSeq(s, i + 1, Len(s)))
    ELSE <<s>>

\* ", ".join(list)
RECURSIVE Join(_)
Join(list) ==
    IF list = <<>> THEN <<>>
    ELSE IF Len(list) = 1 THEN list[1]
    ELSE list[1] \o <<",", " ">> \o Join(Tail(list))

\* the number of leading characters of s that belong to class
RECURSIVE Span(_, _)
Span(s, class) ==
    IF s # <<>> /\ Head(s) \in class THEN 1 + Span(Tail(s), class) ELSE 0

Drop(s, n) == SubSeq(s, n + 1, Len(s))

\* faulty variant of StripOrdinal: the pattern lacks its final \s*, so the
\* blank after "1." stays in front of the name
StripOrdinal_KeepSpace(part) ==
    LET afterWs == Drop(part, Span(part, Whitespace))
        digits == Span(afterWs, Digit)
        afterDigits == Drop(afterWs, digits)
    IN IF digits >= 1 /\ afterDigits # <<>> /\ Head(afterDigits) = "."
       THEN Tail(afterDigits)
       ELSE part

\* re.sub(r"^\s*\d+\.\s*", "", part): remove one leading "<digits>." with the
\* whitespace around it; a part that does not start that way is left as it is
StripOrdinal(part) ==
    LET afterWs == Drop(part, Span(part, Whitespace))
        digits == Span(afterWs, Digit)
        afterDigits == Drop(afterWs, digits)
    IN IF digits >= 1 /\ afterDigits # <<>> /\ Head(afterDigits) = "."
       THEN LET afterDot == Tail(afterDigits)
            IN Drop(afterDot, Span(afterDot, Whitespace))
       ELSE part

\* faulty variant of Parts: the empty pieces are not dropped
Parts_KeepEmpty(text) ==
    LET pieces == Split(text)
    IN [i \in DOMAIN pieces |-> Strip(pieces[i])]

\* parts = [p.strip() for p in text.split(",") if p.strip()]
Parts(text) ==
    LET pieces == Split(text)
        stripped == [i \in DOMAIN pieces |-> Strip(pieces[i])]
    IN SelectSeq(stripped, LAMBDA p : p # <<>>)

\* faulty variant of Normalized: every name is inserted in front of the
\* list instead of appended to it
Normalized_Prepended(parts) ==
    [i \in DOMAIN parts |-> StripOrdinal(parts[Len(parts) + 1 - i])]

\* normalized: the parts with their ordinal prefix removed
Normalized(parts) == [i \in DOMAIN parts |-> StripOrdinal(parts[i])]

\* str(n) for a natural number
RECURSIVE Str(_)
Str(n) ==
    LET d == <<"0", "1", "2", "3", "4", "5", "6", "7", "8", "9">>[(n % 10) + 1]
    IN IF n < 10 THEN <<d>> ELSE Str(n \div 10) \o <<d>>

(***************************************************************************)
(* context.user_data: one Python dict per chat.  A dict is a function      *)
(* from the keys it holds to their values; a key that was never set is     *)
(* not in its domain.                                                      *)
(***************************************************************************)
EmptyDict == [k \in {} |-> FALSE]

\* d.get(key, default)
Get(d, key, default) == IF key \in DOMAIN d THEN d[key] ELSE default

\* d[key] = value
Put(d, key, value) ==
    [k \in DOMAIN d \cup {key} |-> IF k = key THEN value ELSE d[k]]

Chats == DOMAIN user_data

selected(c) == Get(user_data[c], "selected_games", <<>>)

\* faulty variant of awaiting_ranking: the default of the absent key is True
awaiting_ranking_DefaultTrue(c) == Get(user_data[c], "awaiting_ranking", TRUE)

awaiting_ranking(c) == Get(user_data[c], "awaiting_ranking", FALSE)
ranking(c) == Get(user_data[c], "ranking", <<>>)

(***************************************************************************)
(* Outbound messages: the text is abstracted to the name of the message,   *)
(* the keyboard is kept in full.                                           *)
(***************************************************************************)
Message(c, text, markup) ==
    [chat_id |-> c, text |-> text, reply_markup |-> markup]

InlineKeyboardButton(label, data) == [text |-> label, callback_data |-> data]

\* faulty variant of build_multi_select_keyboard: the rows follow the order
\* in which the games were selected, the games not selected come after them
build_multi_select_keyboard_SelectionOrder(selected_games) ==
    LET rest == SelectSeq(GAMES, LAMBDA g : ~Contains(selected_games, g))
        order == selected_games \o rest
    IN [i \in 1..(Len(order) + 1) |->
           IF i <= Len(order)
           THEN <<InlineKeyboardButton(
                      IF Contains(selected_games, order[i])
                      THEN CHECKMARK \o order[i] ELSE order[i],
                      order[i])>>
           ELSE <<InlineKeyboardButton(CHECKMARK \o <<"D", "o", "n", "e">>,
                                       DONE)>>]

\* one row per game of GAMES, in GAMES order, then the Done row
build_multi_select_keyboard(selected_games) ==
    [i \in 1..(Len(GAMES) + 1) |->
        IF i <= Len(GAMES)
        THEN <<InlineKeyboardButton(
                   IF Contains(selected_games, GAMES[i])
                   THEN CHECKMARK \o GAMES[i] ELSE GAMES[i],
                   GAMES[i])>>
        ELSE <<InlineKeyboardButton(CHECKMARK \o <<"D", "o", "n", "e">>, DONE)>>]

(***************************************************************************)
(* List operations of the toggle.                                          *)
(***************************************************************************)
\* faulty variant of Remove: x and everything behind it is deleted
Remove_Truncate(list, x) ==
    LET i == CHOOSE k \in DOMAIN list :
                 list[k] = x /\ \A j \in 1..(k - 1) : list[j] # x
    IN SubSeq(list, 1, i - 1)

\* list.remove(x): delete the first occurrence of x
Remove(list, x) ==
    LET i == CHOOSE k \in DOMAIN list :
                 list[k] = x /\ \A j \in 1..(k - 1) : list[j] # x
    IN SubSeq(list, 1, i - 1) \o SubSeq(list, i + 1, Len(list))

\* faulty variant of Toggled: the test "data in selected_games" is missing
Toggled_AlwaysAppend(list, game) == Append(list, game)

\* faulty variant of Toggled: a newly tapped game is put in front
Toggled_Front(list, game) ==
    IF Contains(list, game)
    THEN LET i == CHOOSE k \in DOMAIN list :
                      list[k] = game /\ \A j \in 1..(k - 1) : list[j] # game
         IN SubSeq(list, 1, i - 1) \o SubSeq(list, i + 1, Len(list))
    ELSE <<game>> \o list

\* the selected_games list after one tap on game
Toggled(list, game) ==
    IF Contains(list, game) THEN Remove(list, game) ELSE Append(list, game)

\* the test that rejects a ranking:
\* faulty variant of Mismatch: the lengths are not compared
Mismatch_SetOnly(normalized, selected_games) ==
    Range(normalized) # Range(selected_games)

\* normalized_set != selected_set or len(normalized) != len(selected_games)
Mismatch(normalized, selected_games) ==
    \/ Range(normalized) # Range(selected_games)
    \/ Len(normalized) # Len(selected_games)

(***************************************************************************)
(* Handlers.  Updates are dispatched one at a time, so every handler is    *)
(* one atomic step.                                                        *)
(***************************************************************************)
\* faulty variant of start: the three keys are kept in one place for all the
\* chats, so the /start of one chat resets every chat
start_AllChats(c) ==
    /\ user_data' = [d \in Chats |->
           Put(Put(Put(EmptyDict, "selected_games", <<>>),
                   "awaiting_ranking", FALSE),
               "ranking", <<>>)]
    /\ sent' = <<Message(c, "Welcome", <<>>),
                 Message(c, "Choose", build_multi_select_keyboard(<<>>))>>

\* /start
start(c) ==
    /\ user_data' = [user_data EXCEPT ![c] =
           Put(Put(Put(EmptyDict, "selected_games", <<>>),
                   "awaiting_ranking", FALSE),
               "ranking", <<>>)]
    /\ sent' = <<Message(c, "Welcome", <<>>),
                 Message(c, "Choose", build_multi_select_keyboard(<<>>))>>

\* faulty variant of mark_done: the test for an empty selection is missing
mark_done_Unchecked(c) ==
    /\ user_data' = [user_data EXCEPT ![c] = Put(@, "awaiting_ranking", TRUE)]
    /\ sent' = <<Message(c, "RankPrompt", <<>>)>>

\* a tap on the Done button: callback_data == "__DONE__"
mark_done(c) ==
    LET selected_games == selected(c)
    IN IF selected_games = <<>>
       THEN /\ sent' = <<Message(c, "EmptySelection", <<>>),
                         Message(c, "Choose",
                                 build_multi_select_keyboard(selected_games))>>
            /\ UNCHANGED user_data
       ELSE /\ user_data' = [user_data EXCEPT ![c] =
                   Put(@, "awaiting_ranking", TRUE)]
            /\ sent' = <<Message(c, "RankPrompt", <<>>)>>

\* faulty variant of toggle: a changed selection discards the stored ranking
toggle_ClearsRanking(c, data) ==
    /\ data # DONE
    /\ Contains(GAMES, data)
    /\ LET selected_games == Toggled(selected(c), data)
       IN /\ user_data' = [user_data EXCEPT ![c] =
                 Put(Put(@, "selected_games", selected_games), "ranking", <<>>)]
          /\ sent' = <<Message(c, "Choose",
                               build_multi_select_keyboard(selected_games))>>

\* a tap on a game button: callback_data is a game of GAMES
toggle(c, data) ==
    /\ data # DONE
    /\ Contains(GAMES, data)
    /\ LET selected_games == Toggled(selected(c), data)
       IN /\ user_data' = [user_data EXCEPT ![c] =
                 Put(@, "selected_games", selected_games)]
          /\ sent' = <<Message(c, "Choose",
                               build_multi_select_keyboard(selected_games))>>

\* faulty variant of unexpected: the test "data in GAMES" is missing, so the
\* unknown token is toggled like a game
unexpected_Toggled(c, data) ==
    /\ data # DONE
    /\ ~Contains(GAMES, data)
    /\ user_data' = [user_data EXCEPT ![c] =
           Put(@, "selected_games", Toggled(selected(c), data))]
    /\ sent' = <<Message(c, "SomethingWentWrong", <<>>)>>

\* a tap whose callback_data is neither Done nor a game
unexpected(c, data) ==
    /\ data # DONE
    /\ ~Contains(GAMES, data)
    /\ sent' = <<Message(c, "SomethingWentWrong", <<>>)>>
    /\ UNCHANGED user_data

handle_selection_callback(c, data) ==
    \/ data = DONE /\ mark_done(c)
    \/ toggle(c, data)
    \/ unexpected(c, data)

\* faulty variant of handle_ranking_message: the ranking is stored before it
\* is validated
handle_ranking_message_StoreFirst(c, message_text) ==
    IF ~awaiting_ranking(c)
    THEN /\ sent' = <<>>
         /\ UNCHANGED user_data
    ELSE LET text == Strip(message_text)
             selected_games == selected(c)
             parts == Parts(text)
             normalized == Normalized(parts)
         IN IF parts = <<>>
            THEN /\ sent' = <<Message(c, "NoItemsDetected", <<>>)>>
                 /\ UNCHANGED user_data
            ELSE IF Mismatch(normalized, selected_games)
            THEN /\ sent' = <<Message(c, "RankingMismatch", <<>>)>>
                 /\ user_data' = [user_data EXCEPT ![c] =
                        Put(@, "ranking", normalized)]
            ELSE /\ user_data' = [user_data EXCEPT ![c] =
                        Put(Put(@, "ranking", normalized),
                            "awaiting_ranking", FALSE)]
                 /\ sent' = <<Message(c, "Accepted", <<>>)>>

\* faulty variant of handle_ranking_message: the test of awaiting_ranking is
\* missing, every text is parsed
handle_ranking_message_NoGate(c, message_text) ==
    LET text == Strip(message_text)
        selected_games == selected(c)
        parts == Parts(text)
        normalized == Normalized(parts)
    IN IF parts = <<>>
       THEN /\ sent' = <<Message(c, "NoItemsDetected", <<>>)>>
            /\ UNCHANGED user_data
       ELSE IF Mismatch(normalized, selected_games)
       THEN /\ sent' = <<Message(c, "RankingMismatch", <<>>)>>
            /\ UNCHANGED user_data
       ELSE /\ user_data' = [user_data EXCEPT ![c] =
                   Put(Put(@, "ranking", normalized),
                       "awaiting_ranking", FALSE)]
            /\ sent' = <<Message(c, "Accepted", <<>>)>>

\* a text message that is not a command
handle_ranking_message(c, message_text) ==
    IF ~awaiting_ranking(c)
    THEN /\ sent' = <<>>
         /\ UNCHANGED user_data
    ELSE LET text == Strip(message_text)
             selected_games == selected(c)
             parts == Parts(text)
             normalized == Normalized(parts)
         IN IF parts = <<>>
            THEN /\ sent' = <<Message(c, "NoItemsDetected", <<>>)>>
                 /\ UNCHANGED user_data
            ELSE IF Mismatch(normalized, selected_games)
            THEN /\ sent' = <<Message(c, "RankingMismatch", <<>>)>>
                 /\ UNCHANGED user_data
            ELSE /\ user_data' = [user_data EXCEPT ![c] =
                        Put(Put(@, "ranking", normalized),
                            "awaiting_ranking", FALSE)]
                 /\ sent' = <<Message(c, "Accepted", <<>>)>>

\* faulty variant of change: the ranking is not cleared
change_KeepRanking(c) ==
    /\ user_data' = [user_data EXCEPT ![c] =
           Put(Put(@, "selected_games", <<>>), "awaiting_ranking", FALSE)]
    /\ sent' = <<Message(c, "StartOver", <<>>),
                 Message(c, "Choose", build_multi_select_keyboard(<<>>))>>

\* /change
change(c) ==
    /\ user_data' = [user_data EXCEPT ![c] =
           Put(Put(Put(@, "selected_games", <<>>), "ranking", <<>>),
               "awaiting_ranking", FALSE)]
    /\ sent' = <<Message(c, "StartOver", <<>>),
                 Message(c, "Choose", build_multi_select_keyboard(<<>>))>>

\* /current
current(c) ==
    /\ sent' = <<Message(c,
                    IF selected(c) = <<>> THEN "NothingSelected"
                    ELSE IF ranking(c) # <<>> THEN "CurrentRanked"
                    ELSE "CurrentSelected",
                    <<>>)>>
    /\ UNCHANGED user_data

(***************************************************************************)
(* Inputs: the callback tokens the user taps and the texts the user sends. *)
(***************************************************************************)
Min(a, b) == IF a < b THEN a ELSE b

\* the games the user taps: the last NumTapped games of GAMES
Tapped ==
    {GAMES[i] : i \in (Len(GAMES) - Min(NumTapped, Len(GAMES)) + 1)..Len(GAMES)}

\* a callback token that no button of the keyboard carries
Poker == <<"P", "o", "k", "e", "r">>

\* a name that is not in GAMES
Go == <<"G", "o">>

\* the lists of at most n distinct elements of S
RECURSIVE DistinctLists(_, _)
DistinctLists(S, n) ==
    IF n = 0 THEN {<<>>}
    ELSE LET shorter == DistinctLists(S, n - 1)
         IN shorter \cup
            {Append(l[1], l[2]) :
                 l \in {p \in shorter \X S : p[2] \notin Range(p[1])}}

\* "<ordinal(1)>. list[1], <ordinal(2)>. list[2], ..."
RenderWith(list, ordinal(_)) ==
    Join([i \in DOMAIN list |-> Str(ordinal(i)) \o <<".", " ">> \o list[i]])

\* the rendering "1. a, 2. b, ..." of a list in its own order
Render(list) == RenderWith(list, LAMBDA i : i)

\* the same entries with the ordinals counting down: "2. a, 1. b"
RenderDown(list) == RenderWith(list, LAMBDA i : Len(list) + 1 - i)

\* the same entries, every one with the ordinal 1: "1. a, 1. b"
RenderOnes(list) == RenderWith(list, LAMBDA i : 1)

\* the rankings a text can spell: at most MaxParts distinct tapped games
Rankings == DistinctLists(Tapped, MaxParts) \ {<<>>}

\* lists that name a game twice or name something that is no game
BadLists ==
    {<<Go>>} \cup
    (IF MaxParts >= 2
     THEN {<<g, g>> : g \in Tapped} \cup {<<g, Go>> : g \in Tapped}
     ELSE {})

EdgeTexts ==
    { <<>>,
      <<" ">>,
      <<",">>,
      <<" ", ",", " ", ",", "\t">>,
      <<"1", ".">>,
      <<"1", ".", " ", ",">>,
      Game2048,
      <<"\t">> \o Sudoku \o <<",">> \o Game2048 \o <<",", "\n">>,
      <<"1", ".">> \o Game2048,
      <<"1", " ">> \o Game2048,
      <<".", " ">> \o Game2048,
      <<"1", "2", ".", "\t">> \o Sudoku \o <<" ", ",">>,
      <<"\n", " ", "7", ".", " ", "3", ".", " ">> \o Sudoku,
      Game2048 \o <<".", " ">> \o Sudoku }

Texts ==
    {Render(l) : l \in Rankings} \cup
    {RenderDown(l) : l \in Rankings} \cup
    {RenderOnes(l) : l \in BadLists} \cup
    EdgeTexts

(***************************************************************************)
(* The bot serving one chat.  The events are those of the dispatch loop:   *)
(* /start, a tap on a game button or on a stale button, a tap on Done, a   *)
(* text message, /change and /current.                                     *)
(***************************************************************************)
Init ==
    /\ user_data = [c \in {1} |-> EmptyDict]
    /\ sent = <<>>

SessionStart == \E c \in Chats : start(c)

ToggleItem ==
    \E c \in Chats, data \in Tapped \cup {Poker} :
        handle_selection_callback(c, data)

ConfirmSelection == \E c \in Chats : handle_selection_callback(c, DONE)

TextMessage == \E c \in Chats, t \in Texts : handle_ranking_message(c, t)

ResetSession == \E c \in Chats : change(c)

QuerySessionStatus == \E c \in Chats : current(c)

Next ==
    \/ SessionStart
    \/ ToggleItem
    \/ ConfirmSelection
    \/ TextMessage
    \/ ResetSession
    \/ QuerySessionStatus

Spec == Init /\ [][Next]_vars

(***************************************************************************)
(* The bot serving two chats.  The dispatcher hands the updates of both    *)
(* chats to the same handlers one at a time, in any order; every handler   *)
(* gets the user_data of the chat its update comes from.                   *)
(***************************************************************************)
\* the games the two chats tap: the last NumPairTapped games of GAMES
PairTapped ==
    {GAMES[i] :
         i \in (Len(GAMES) - Min(NumPairTapped, Len(GAMES)) + 1)..Len(GAMES)}

\* the texts the two chats send: rankings of the tapped games, a text
\* without items and a text that names no game
PairTexts ==
    {Render(l) : l \in DistinctLists(PairTapped, NumPairTapped) \ {<<>>}} \cup
    {<<",">>, Render(<<Go>>)}

InitTwo ==
    /\ user_data = [c \in {1, 2} |-> EmptyDict]
    /\ sent = <<>>

PairToggleItem ==
    \E c \in Chats, data \in PairTapped \cup {Poker} :
        handle_selection_callback(c, data)

PairTextMessage ==
    \E c \in Chats, t \in PairTexts : handle_ranking_message(c, t)

NextTwo ==
    \/ SessionStart
    \/ PairToggleItem
    \/ ConfirmSelection
    \/ PairTextMessage
    \/ ResetSession
    \/ QuerySessionStatus

SpecTwo == InitTwo /\ [][NextTwo]_vars

(***************************************************************************)
(* Properties.                                                             *)
(***************************************************************************)
\* a holds every element of b exactly once and nothing else
IsPermutation(a, b) ==
    /\ Len(a) = Len(b)
    /\ Range(a) = Range(b)
    /\ \A i, j \in DOMAIN a : a[i] = a[j] => i = j

\* list without every occurrence of x, the rest in its order
Without(list, x) == SelectSeq(list, LAMBDA y : y # x)

\* the name of the first message the last handler sent
Outcome == IF sent = <<>> THEN "None" ELSE sent[1].text

\* C1: whenever ranking is non-empty it is a permutation of selected
C1_RankingPermutesSelected ==
    \A c \in Chats : ranking(c) # <<>> => IsPermutation(ranking(c), selected(c))

\* C2: a tap on a game button while the chat awaits a ranking or holds a
\* ranking leaves selected, awaiting_ranking and ranking as they were
C2_ToggleIgnoredOutsideSelecting ==
    [][\A c \in Chats, g \in Tapped :
          ((awaiting_ranking(c) \/ ranking(c) # <<>>)
             /\ handle_selection_callback(c, g))
          => /\ selected(c)' = selected(c)
             /\ awaiting_ranking(c)' = awaiting_ranking(c)
             /\ ranking(c)' = ranking(c)]_vars

\* C3: Done on an empty selection answers EmptySelection and changes nothing
\* of the chat; Done on a non-empty selection sets awaiting_ranking
C3_MarkDone ==
    [][\A c \in Chats :
          handle_selection_callback(c, DONE)
          => IF selected(c) = <<>>
             THEN /\ Outcome' = "EmptySelection"
                  /\ selected(c)' = selected(c)
                  /\ awaiting_ranking(c)' = awaiting_ranking(c)
                  /\ ranking(c)' = ranking(c)
             ELSE awaiting_ranking(c)' = TRUE]_vars

C3_Witness ==
    /\ Outcome = "EmptySelection"
    /\ selected(1) = <<>>
    /\ ~awaiting_ranking(1)

\* C4: while a ranking is awaited a text is accepted exactly when its
\* candidates hold every selected game once and nothing else
C4_AcceptedIffPermutation ==
    [][\A c \in Chats :
          awaiting_ranking(c)
          => \A t \in Texts :
                handle_ranking_message(c, t)
                => (Outcome' = "Accepted"
                      <=> IsPermutation(Normalized(Parts(Strip(t))),
                                        selected(c)))]_vars

\* C5: an accepted ranking is the list of entries in the order of the text,
\* whatever ordinals were typed in front of them, and ends the waiting: a
\* text that lists the selected games as l, the ordinals counting up or
\* down, stores l
C5_RankingInTextOrder ==
    [][\A c \in Chats :
          (awaiting_ranking(c) /\ Outcome' = "Accepted")
          => /\ ~awaiting_ranking(c)'
             /\ IsPermutation(ranking(c)', selected(c))
             /\ \A l \in {r \in Rankings : IsPermutation(r, selected(c))} :
                   (handle_ranking_message(c, Render(l))
                      \/ handle_ranking_message(c, RenderDown(l)))
                   => ranking(c)' = l]_vars

C5_Witness ==
    /\ Outcome = "Accepted"
    /\ ~awaiting_ranking(1)
    /\ selected(1) = <<Sudoku, Game2048>>
    /\ ranking(1) = <<Game2048, Sudoku>>

\* C6: while a ranking is awaited, the text "1. s1, 2. s2, ..." that renders
\* a non-empty selected in its own order is accepted and makes ranking equal
\* to selected
C6_RoundTrip ==
    [][\A c \in Chats :
          (/\ awaiting_ranking(c)
           /\ selected(c) # <<>>
           /\ handle_ranking_message(c, Render(selected(c))))
          => /\ Outcome' = "Accepted"
             /\ ranking(c)' = selected(c)]_vars

C6_Witness ==
    /\ Outcome = "Accepted"
    /\ selected(1) = <<Game2048, Hangman>>
    /\ ranking(1) = selected(1)

\* C7: a handler that answers NoItemsDetected, RankingMismatch or
\* EmptySelection leaves selected, awaiting_ranking and ranking as they were
C7_FailureKeepsState ==
    [][Outcome' \in {"NoItemsDetected", "RankingMismatch", "EmptySelection"}
          => \A c \in Chats :
                /\ selected(c)' = selected(c)
                /\ awaiting_ranking(c)' = awaiting_ranking(c)
                /\ ranking(c)' = ranking(c)]_vars

C7_Witness ==
    /\ Outcome = "RankingMismatch"
    /\ awaiting_ranking(1)
    /\ Len(selected(1)) = 2
    /\ ranking(1) # <<>>

\* C8: a tap on a game removes it from selected when it is there, the others
\* keeping their order, and appends it at the end when it is not
C8_Toggle ==
    [][\A c \in Chats, g \in Tapped :
          handle_selection_callback(c, g)
          => selected(c)' = IF g \in Range(selected(c))
                            THEN Without(selected(c), g)
                            ELSE selected(c) \o <<g>>]_vars

C8_Witness ==
    /\ Outcome = "Choose"
    /\ selected(1) = <<Sudoku, Hangman>>
    /\ sent[1].reply_markup[3][1].text = CHECKMARK \o Hangman
    /\ sent[1].reply_markup[4][1].text = Game2048

\* C9: two taps in a row on the same game leave the same games selected and
\* the others in their order; a game that was selected ends in the last place
C9_ToggleTwice ==
    \A c \in Chats, g \in Tapped :
        LET before == selected(c)
            after == Toggled(Toggled(before, g), g)
        IN /\ Range(after) = Range(before)
           /\ Without(after, g) = Without(before, g)
           /\ g \in Range(before) => after = Without(before, g) \o <<g>>
           /\ g \notin Range(before) => after = before

C9_Witness ==
    /\ selected(1) = <<Hangman, Sudoku>>
    /\ Toggled(Toggled(selected(1), Hangman), Hangman) = <<Sudoku, Hangman>>

\* C10: /change and /start leave selected empty, awaiting_ranking false and
\* ranking empty, whatever the chat held before
C10_Reset ==
    [][\A c \in Chats :
          (change(c) \/ start(c))
          => /\ selected(c)' = <<>>
             /\ awaiting_ranking(c)' = FALSE
             /\ ranking(c)' = <<>>]_vars

C10_Witness ==
    /\ Outcome = "StartOver"
    /\ selected(1) = <<>>
    /\ ~awaiting_ranking(1)
    /\ ranking(1) = <<>>

\* the state of the dispatch loop a chat is in
SessionState(c) ==
    IF awaiting_ranking(c) THEN "AWAITING_RANKING"
    ELSE IF ranking(c) # <<>> THEN "RANKED"
    ELSE "SELECTING"

\* C11: a chat changes its state only from SELECTING to AWAITING_RANKING by
\* a Done that succeeds, from AWAITING_RANKING to RANKED by an accepted
\* ranking, and to SELECTING by /change or /start
C11_OnlyThreeTransitions ==
    [][\A c \in Chats :
          SessionState(c)' # SessionState(c)
          => \/ /\ SessionState(c) = "SELECTING"
                /\ SessionState(c)' = "AWAITING_RANKING"
                /\ handle_selection_callback(c, DONE)
             \/ /\ SessionState(c) = "AWAITING_RANKING"
                /\ SessionState(c)' = "RANKED"
                /\ Outcome' = "Accepted"
             \/ /\ SessionState(c)' = "SELECTING"
                /\ (change(c) \/ start(c))]_vars

\* the answers only handle_ranking_message gives ("None": no answer)
TextOutcomes == {"None", "NoItemsDetected", "RankingMismatch", "Accepted"}

\* the texts that are nothing but commas and whitespace
BlankTexts == {t \in Texts : \A i \in DOMAIN t : t[i] \in Whitespace \cup {","}}

\* C12: while a ranking is awaited, a text without any fragment is answered
\* with NoItemsDetected whatever selected holds, and nothing is stored
C12_NoItemsDetectedFirst ==
    [][\A c \in Chats :
          (awaiting_ranking(c) /\ Outcome' \in TextOutcomes)
          => \A t \in BlankTexts :
                handle_ranking_message(c, t)
                => /\ Outcome' = "NoItemsDetected"
                   /\ UNCHANGED user_data]_vars

C12_Witness ==
    /\ Outcome = "NoItemsDetected"
    /\ awaiting_ranking(1)
    /\ selected(1) = <<Hangman, Game2048, Sudoku>>

\* C13 as stated: a tap whose token is neither a game nor Done changes
\* nothing of the chat and sends nothing to the user
C13_UnknownTokenSilent ==
    [][\A c \in Chats :
          handle_selection_callback(c, Poker)
          => /\ UNCHANGED user_data
             /\ sent' = <<>>]_vars

\* C13 as amended: such a tap changes nothing of the chat, and the tapped
\* message is replaced by the notice "Something went wrong"
C13_UnknownTokenKeepsState ==
    [][\A c \in Chats :
          handle_selection_callback(c, Poker)
          => /\ selected(c)' = selected(c)
             /\ awaiting_ranking(c)' = awaiting_ranking(c)
             /\ ranking(c)' = ranking(c)
             /\ sent' = <<Message(c, "SomethingWentWrong", <<>>)>>]_vars

C13_Witness ==
    /\ Outcome = "SomethingWentWrong"
    /\ selected(1) = <<Game2048>>
    /\ awaiting_ranking(1)

\* the keyboard kb shows the games of GAMES in their order, one row each,
\* marked exactly when selected, and then the one Done row
KeyboardShows(kb, selected_games) ==
    /\ Len(kb) = Len(GAMES) + 1
    /\ \A i \in DOMAIN kb : Len(kb[i]) = 1
    /\ \A i \in DOMAIN GAMES :
          /\ kb[i][1].callback_data = GAMES[i]
          /\ kb[i][1].text = GAMES[i] <=> GAMES[i] \notin Range(selected_games)
          /\ kb[i][1].text = CHECKMARK \o GAMES[i]
                <=> GAMES[i] \in Range(selected_games)
    /\ kb[Len(kb)][1].callback_data \notin Range(GAMES)
    /\ kb[Len(kb)][1].callback_data = DONE

\* C14: every keyboard sent shows the selected games of its chat in the
\* order of GAMES, and the keyboard is determined by selected alone
C14_Keyboard ==
    \A i \in DOMAIN sent :
        sent[i].reply_markup # <<>>
        => /\ KeyboardShows(sent[i].reply_markup, selected(sent[i].chat_id))
           /\ sent[i].reply_markup
                 = build_multi_select_keyboard(selected(sent[i].chat_id))

C14_Witness ==
    /\ Outcome = "Choose"
    /\ selected(1) = <<Sudoku, Game2048>>
    /\ sent[1].reply_markup[3][1].text = Hangman
    /\ sent[1].reply_markup[4][1].text = CHECKMARK \o Game2048
    /\ sent[1].reply_markup[5][1].text = CHECKMARK \o Sudoku
    /\ sent[1].reply_markup[6][1].callback_data = DONE

\* C16: a text that arrives while no ranking is awaited changes nothing and
\* gets no answer; a stored ranking is replaced only by a text accepted while
\* a ranking is awaited, or emptied by a reset
C16_TextIgnored ==
    [][\A c \in Chats :
          /\ (~awaiting_ranking(c) /\ Outcome' \in TextOutcomes)
             => /\ UNCHANGED user_data
                /\ sent' = <<>>
          /\ ranking(c)' # ranking(c)
             => \/ awaiting_ranking(c) /\ Outcome' = "Accepted"
                \/ ranking(c)' = <<>>]_vars

C16_Witness ==
    /\ sent = <<>>
    /\ ~awaiting_ranking(1)
    /\ ranking(1) = <<Sudoku, Game2048>>

\* the list has no game twice and only games of GAMES
DistinctGames(list) ==
    /\ \A i, j \in DOMAIN list : list[i] = list[j] => i = j
    /\ Range(list) \subseteq Range(GAMES)

\* C17: selected has no game twice and only games of GAMES
C17_SelectedDistinctGames == \A c \in Chats : DistinctGames(selected(c))

C17_Witness ==
    /\ selected(1) = <<Sudoku, Hangman, Game2048>>
    /\ awaiting_ranking(1)
    /\ ranking(1) # <<>>

\* C18: while a ranking is awaited, selected is not empty
C18_AwaitingHasSelection ==
    \A c \in Chats : awaiting_ranking(c) => selected(c) # <<>>

\* C19: a ranking that is not empty has no game twice and only games of
\* GAMES, whatever selected has become since
C19_RankingDistinctGames ==
    \A c \in Chats : ranking(c) # <<>> => DistinctGames(ranking(c))

C19_Witness ==
    /\ ranking(1) = <<Game2048, Sudoku>>
    /\ selected(1) = <<Hangman>>

\* C20: a step that changes awaiting_ranking or ranking is no tap on a game
\* or on an unknown token, a step that changes selected or ranking is no tap
\* on Done, a step that changes selected is no text, and a step that changes
\* anything is no /current
C20_Frame ==
    [][\A c \in Chats :
          /\ (awaiting_ranking(c)' # awaiting_ranking(c) \/ ranking(c)' # ranking(c))
             => \A data \in Tapped \cup {Poker} :
                   ~handle_selection_callback(c, data)
          /\ (selected(c)' # selected(c) \/ ranking(c)' # ranking(c))
             => ~handle_selection_callback(c, DONE)
          /\ selected(c)' # selected(c) => Outcome' \notin TextOutcomes
          /\ user_data' # user_data => ~current(c)]_vars

C20_Witness ==
    /\ Outcome = "Choose"
    /\ awaiting_ranking(1)
    /\ ranking(1) = <<Sudoku>>
    /\ selected(1) = <<Sudoku, Hangman>>

\* the session state of a chat
Session(c) == <<selected(c), awaiting_ranking(c), ranking(c)>>

\* the step leaves chat c with the session state session and every other
\* chat with the user_data it had
OnlyOwn(c, session) ==
    /\ Session(c)' = session
    /\ \A d \in Chats \ {c} : user_data'[d] = user_data[d]

\* the games each text of PairTexts names, in the order of the text
PairCandidates == [t \in PairTexts |-> Normalized(Parts(Strip(t)))]

\* the step answers chat c, or answers nobody
Answers(c) == sent' = <<>> \/ sent'[1].chat_id = c

\* C15: with two chats served in any interleaving, every event of a chat
\* leaves the other chat's user_data alone, and the chat's next session state
\* is determined by its own session state and the event; so each chat ends
\* where its own events alone lead it.  (For a text the three disjuncts say:
\* the step is handle_ranking_message(c, t) only if it ends as stated.)
C15_Independent ==
    [][\A c \in Chats :
          IF ~Answers(c) THEN user_data'[c] = user_data[c]
          ELSE
          /\ (start(c) \/ change(c)) => OnlyOwn(c, <<<<>>, FALSE, <<>>>>)
          /\ \A data \in PairTapped :
                handle_selection_callback(c, data)
                => OnlyOwn(c, <<IF data \in Range(selected(c))
                                THEN Without(selected(c), data)
                                ELSE Append(selected(c), data),
                                awaiting_ranking(c), ranking(c)>>)
          /\ handle_selection_callback(c, Poker) => OnlyOwn(c, Session(c))
          /\ handle_selection_callback(c, DONE)
             => OnlyOwn(c, <<selected(c),
                             awaiting_ranking(c) \/ selected(c) # <<>>,
                             ranking(c)>>)
          /\ \A t \in PairTexts :
                \/ Outcome' \notin TextOutcomes
                \/ OnlyOwn(c, IF /\ awaiting_ranking(c)
                                 /\ PairCandidates[t] # <<>>
                                 /\ IsPermutation(PairCandidates[t], selected(c))
                              THEN <<selected(c), FALSE, PairCandidates[t]>>
                              ELSE Session(c))
                \/ ~handle_ranking_message(c, t)
          /\ current(c) => OnlyOwn(c, Session(c))]_vars

\* chat 1 holds a ranking, chat 2 is asked for one and has just been
\* answered
C15_Witness ==
    /\ Chats = {1, 2}
    /\ Session(1) = <<<<Sudoku>>, FALSE, <<Sudoku>>>>
    /\ Session(2) = <<<<Sudoku>>, TRUE, <<>>>>
    /\ Outcome = "RankPrompt"
    /\ sent[1].chat_id = 2

\* the keys /start and /change set
Keys == {"selected_games", "awaiting_ranking", "ranking"}

\* neither /start nor /change has run for chat c: some key is absent
BeforeStart(c) == DOMAIN user_data[c] # Keys

\* C21: in a chat whose user_data is still empty a tap on a game selects
\* that game alone, Done is answered EmptySelection, a text is ignored and
\* /current reports nothing selected; and as long as some key is absent,
\* every step leaves a well-formed session, and the error notice answers
\* nothing but an unknown token
C21_BeforeStart ==
    [][\A c \in Chats :
          /\ user_data[c] = EmptyDict
             => /\ \A data \in Tapped :
                      handle_selection_callback(c, data)
                      => /\ Session(c)' = <<<<data>>, FALSE, <<>>>>
                         /\ Outcome' = "Choose"
                /\ handle_selection_callback(c, DONE)
                   => /\ Outcome' = "EmptySelection"
                      /\ UNCHANGED user_data
                /\ \A t \in Texts :
                      handle_ranking_message(c, t)
                      => /\ sent' = <<>>
                         /\ UNCHANGED user_data
                /\ current(c)
                   => /\ Outcome' = "NothingSelected"
                      /\ UNCHANGED user_data
          /\ BeforeStart(c)
             => /\ DistinctGames(selected(c)')
                /\ DistinctGames(ranking(c)')
                /\ awaiting_ranking(c)' \in BOOLEAN
                /\ Outcome' = "SomethingWentWrong"
                   => handle_selection_callback(c, Poker)]_vars

\* a game was tapped before any /start: only the key selected_games exists
C21_Witness ==
    /\ DOMAIN user_data[1] = {"selected_games"}
    /\ selected(1) = <<Sudoku>>
    /\ Outcome = "Choose"

====
